---- MODULE Spec2Model ----
(***************************************************************************)
(* Model of emp_priors.py: the three empirical-prior estimators            *)
(* (llin_discard_rate, admin_err_and_bias, cov_and_zif_fac), their JSON    *)
(* cache files under settings.PATH, and the command-line entry point.      *)
(*                                                                         *)
(* Execution is single-threaded: pc gives the position of every function   *)
(* (at most one of them is not waiting), caller the call chain.  The       *)
(* sampler (pymc) and the data module are outside the file: the records a  *)
(* call reads and the seed of a chain are chosen when they are used.       *)
(* pre, log, exc and prev are history variables: the cache directory when  *)
(* the running top-level invocation began, what it did so far, how it      *)
(* ended, and what the invocation before it returned.  A local is cleared  *)
(* once no later statement reads it and no property below refers to it.    *)
(***************************************************************************)
EXTENDS Integers, Sequences, FiniteSets, TLC

VARIABLES files, pc, caller, recompute, ret, discard_prior, data, data_dict,
          vars, retention_obs, mc, trace, emp_prior_dict,
          pre, log, exc, prev,
          mm_pc, mm_ab, mm_xv, mm_out

vars_all == <<files, pc, caller, recompute, ret, discard_prior, data, data_dict,
              vars, retention_obs, mc, trace, emp_prior_dict,
              pre, log, exc, prev, mm_pc, mm_ab, mm_xv, mm_out>>

locals == <<discard_prior, data, data_dict, vars, retention_obs, mc, trace,
            emp_prior_dict>>

mm_vars == <<mm_pc, mm_ab, mm_xv, mm_out>>

(***************************************************************************)
(* Bounds.                                                                 *)
(***************************************************************************)
MaxKey == 1
MaxRecords == 2
MaxSeed == 2
MaxArgs == 1
MaxNum == 4
MaxDen == 3

Keys == 1..MaxKey
Seeds == 1..MaxSeed

(***************************************************************************)
(* Exact rational arithmetic <<numerator, denominator>>, denominator > 0,  *)
(* in lowest terms; it stands for the float arithmetic of the script.      *)
(***************************************************************************)
Abs(n) == IF n < 0 THEN -n ELSE n

RECURSIVE GCD(_, _)
GCD(a, b) == IF b = 0 THEN a ELSE GCD(b, a % b)

Rat(n, d) ==
    LET s == IF d < 0 THEN -1 ELSE 1
        g == GCD(Abs(n), Abs(d))
    IN  <<(s * n) \div g, (s * d) \div g>>

One == <<1, 1>>
Zero == <<0, 1>>
RAdd(p, q) == Rat(p[1] * q[2] + q[1] * p[2], p[2] * q[2])
RSub(p, q) == Rat(p[1] * q[2] - q[1] * p[2], p[2] * q[2])
RMul(p, q) == Rat(p[1] * q[1], p[2] * q[2])
RDiv(p, q) == Rat(p[1] * q[2], p[2] * q[1])
RPos(p) == p[1] > 0

(***************************************************************************)
(* The estimators, their cache files, JSON.                                *)
(***************************************************************************)
LLIN == "llin_discard_rate"
ADMIN == "admin_err_and_bias"
COV == "cov_and_zif_fac"
MAIN == "__main__"
Ests == {LLIN, ADMIN, COV}
Procs == Ests \cup {MAIN}

FileNames == {"emp_prior_reten.json", "emp_prior_admin.json", "emp_prior_cov.json"}

fname_admin_reten(e) ==
    CASE e = LLIN -> "emp_prior_reten.json"
      [] e = ADMIN -> "emp_prior_reten.json"
      [] e = COV -> "emp_prior_cov.json"

fname(e) ==
    CASE e = LLIN -> "emp_prior_reten.json"
      [] e = ADMIN -> "emp_prior_admin.json"
      [] e = COV -> "emp_prior_cov.json"

NoDict == [none |-> TRUE]
Absent == [st |-> "absent", val |-> NoDict]
Garbage == [st |-> "garbage", val |-> NoDict]
Empty == [st |-> "empty", val |-> NoDict]

\* json.dump(emp_prior_dict, f): the text of the file
json_dump(d) == [st |-> "json", val |-> d]
\* json.load(f) succeeds on the text json.dump wrote
json_parses(file) == file.st = "json"
json_load(file) == file.val

\* fname in os.listdir(settings.PATH)
in_listdir(f) == files[f].st # "absent"

cache_hit_never(e, rc) == FALSE

\* line 30 / 87 / 173
cache_hit(e, rc) == in_listdir(fname(e)) /\ ~rc


(***************************************************************************)
(* The data module: what a call can read.  A table is the set of           *)
(* country-year keys of its rows; a retention record carries its rate and  *)
(* its follow-up time.                                                     *)
(***************************************************************************)
RetentionRecords ==
    {[Retention_Rate |-> <<4, 5>>, Follow_up_Time |-> 1],
     [Retention_Rate |-> <<3, 5>>, Follow_up_Time |-> 2]}

RetentionInputs == UNION {[1..n -> RetentionRecords] : n \in 0..MaxRecords}

NoData == [retention |-> <<>>, admin_llin |-> {}, hh_llin_flow |-> {},
           population |-> {}, hh_llin_stock |-> {}, llin_coverage |-> {}]

RECURSIVE SortedSeq(_)
SortedSeq(S) ==
    IF S = {} THEN <<>>
    ELSE LET m == CHOOSE x \in S : \A y \in S : x <= y
         IN  <<m>> \o SortedSeq(S \ {m})

(***************************************************************************)
(* Joins: data_dict maps a key to the set of fields stored under it.       *)
(***************************************************************************)
\* lines 102-117: admin rows store obs, household rows store time, truth, se
admin_store(a, h) ==
    [k \in a \cup h |->
        (IF k \in a THEN {"obs"} ELSE {})
        \cup (IF k \in h THEN {"time", "truth", "se"} ELSE {})]

\* lines 186-202 when every subscript data_dict[key] finds its key
cov_store(p, s, c) ==
    [k \in p |->
        {"pop"}
        \cup (IF k \in s THEN {"stock", "stock_se"} ELSE {})
        \cup (IF k \in c THEN {"uncovered", "se"} ELSE {})]

\* lines 195 and 201: data_dict[key] on a key the population loop never stored
cov_KeyError(p, s, c) == \E k \in s \cup c : k \notin p

\* lines 120-122 / 205-207: pop every key whose dict has not exactly n fields
keep_complete(dd, n) ==
    [k \in {j \in DOMAIN dd : Cardinality(dd[j]) = n} |-> dd[k]]

(***************************************************************************)
(* Model construction: the nodes handed to MCMC.                           *)
(***************************************************************************)
Node(name, id, value, T) == [node |-> name, id |-> id, value |-> value, T_i |-> T]
Hyper(name) == Node(name, 0, Zero, 0)
\* the list object retention_obs, appended to vars by reference (line 51)
ListRef == Node("retention_obs", 0, Zero, 0)

retention_node_last(recs, i) ==
    Node("obs", i, recs[Len(recs)].Retention_Rate, recs[Len(recs)].Follow_up_Time)

\* lines 43-48: the defaults value= and T_i= are evaluated when obs is defined
retention_node(recs, i) ==
    Node("obs", i, recs[i].Retention_Rate, recs[i].Follow_up_Time)

\* lines 38-51
llin_retention_obs(recs) == [i \in 1..Len(recs) |-> retention_node(recs, i)]
llin_vars(recs) == <<Hyper("pi"), Hyper("sigma")>> \o [i \in 1..Len(recs) |-> ListRef]

\* lines 96-98, 125-133
admin_vars(dd) ==
    <<Hyper("sigma"), Hyper("eps")>>
    \o [i \in 1..Cardinality(DOMAIN dd) |-> Node("obs", SortedSeq(DOMAIN dd)[i], Zero, 0)]

\* lines 178-180, 210-218: a latent stock and an observed node per key
cov_vars(dd) ==
    LET ks == SortedSeq(DOMAIN dd)
    IN  <<Hyper("e"), Hyper("z")>>
        \o [i \in 1..(2 * Len(ks)) |->
              IF i % 2 = 1 THEN Node("stock", ks[(i + 1) \div 2], Zero, 0)
              ELSE Node("obs", ks[i \div 2], Zero, 0)]

\* MCMC(vars): the stochastics found in vars, lists in it followed
MCMC_model(vs, ro) ==
    {vs[i] : i \in {j \in DOMAIN vs : vs[j].node # "retention_obs"}}
    \cup (IF \E j \in DOMAIN vs : vs[j].node = "retention_obs"
          THEN {ro[i] : i \in DOMAIN ro} ELSE {})

(***************************************************************************)
(* Sampling protocol and posterior summaries.                              *)
(***************************************************************************)
iter == 10000
thin == 20
burn == 20000

sample_args_no_thin(e) ==
    [iter |-> iter + burn, burn |-> burn, thin |-> thin,
     kept |-> ((iter + burn) - burn) \div thin]

\* mc.sample(iter*thin+burn, burn, thin); kept: the draws the trace retains
sample_args(e) ==
    [iter |-> iter * thin + burn, burn |-> burn, thin |-> thin,
     kept |-> ((iter * thin + burn) - burn) \div thin]

NoMC == [model |-> {}, iter |-> 0, burn |-> 0, thin |-> 0, kept |-> 0]

\* <stoch>.stats() of the chain run with this seed
stats(name, seed) == [mean |-> Rat(seed, seed + 2), sd |-> Rat(1, seed + 3)]

moment_match_no_minus_one(x, v) ==
    [alpha |-> RMul(x, RDiv(RMul(x, RSub(One, x)), v)),
     beta |-> RMul(RSub(One, x), RDiv(RMul(x, RSub(One, x)), v))]

\* line 64
moment_match(x, v) ==
    [alpha |-> RMul(x, RSub(RDiv(RMul(x, RSub(One, x)), v), One)),
     beta |-> RMul(RSub(One, x), RSub(RDiv(RMul(x, RSub(One, x)), v), One))]

\* lines 147-148 / 232-233: mean and standard deviation ** -2
mu_tau(s) == [mu |-> s.mean, tau |-> RDiv(One, RMul(s.sd, s.sd))]

\* lines 59-64, 146-148, 231-233
summary(e, seed) ==
    CASE e = LLIN ->
           moment_match(stats("pi", seed).mean,
                        RMul(stats("pi", seed).sd, stats("pi", seed).sd))
      [] e = ADMIN ->
           [sigma |-> mu_tau(stats("sigma", seed)), eps |-> mu_tau(stats("eps", seed))]
      [] e = COV ->
           [eta |-> mu_tau(stats("e", seed)), zeta |-> mu_tau(stats("z", seed))]

\* line 92
mu_pi(dp) == RDiv(dp.alpha, RAdd(dp.alpha, dp.beta))

(***************************************************************************)
(* Control flow.                                                           *)
(***************************************************************************)
\* the first statement after the cache check
first_stage(e) ==
    CASE e = LLIN -> "build"
      [] e = ADMIN -> "call_discard"
      [] e = COV -> "join"

successor_open_first(stage) ==
    CASE stage = "join" -> "build"
      [] stage = "build" -> "open"
      [] stage = "open" -> "sample"
      [] stage = "sample" -> "summarize"
      [] stage = "summarize" -> "dump"

\* statement order of an estimator's body
successor(stage) ==
    CASE stage = "join" -> "build"
      [] stage = "build" -> "sample"
      [] stage = "sample" -> "summarize"
      [] stage = "summarize" -> "open"
      [] stage = "open" -> "dump"

discard_recompute_passed(rc) == rc

\* line 91: llin_discard_rate() takes the default recompute=False (line 15)
discard_recompute(rc) == FALSE

\* lines 250-252: the statement of __main__ that follows the call of e
main_after(e) ==
    CASE e = LLIN -> "call_admin"
      [] e = ADMIN -> "call_cov"
      [] e = COV -> "exit"

main_site(e) ==
    CASE e = LLIN -> "call_llin"
      [] e = ADMIN -> "call_admin"
      [] e = COV -> "call_cov"

Ev(ev, who, arg) == [ev |-> ev, who |-> who, arg |-> arg]
CallEv(e, rc) == Ev("call", e, [rc |-> rc, file |-> files[fname(e)]])

Idle == \A p \in Procs : pc[p] = "idle"

NoPrev == [fn |-> "none", val |-> NoDict]

\* what the invocation that just ended leaves for the next one to compare with
PrevOf ==
    IF /\ Len(log) > 0
       /\ log[1].who \in Ests
       /\ ~log[1].arg.rc
       /\ log[1].arg.file.st = "absent"
       /\ exc = "none"
    THEN [fn |-> log[1].who, val |-> ret[log[1].who]]
    ELSE NoPrev

ResetLocals ==
    /\ data' = NoData
    /\ data_dict' = <<>>
    /\ vars' = <<>>
    /\ retention_obs' = <<>>
    /\ mc' = NoMC
    /\ trace' = 0
    /\ emp_prior_dict' = NoDict

\* return val: the caller resumes
Return(e, val, events) ==
    /\ pc' = CASE caller[e] = "top" -> [pc EXCEPT ![e] = "idle"]
               [] caller[e] = MAIN -> [pc EXCEPT ![e] = "idle", ![MAIN] = main_after(e)]
               [] caller[e] = ADMIN -> [pc EXCEPT ![e] = "idle", ![ADMIN] = "join"]
    /\ ret' = [ret EXCEPT ![e] = val]
    /\ caller' = [caller EXCEPT ![e] = "none"]
    /\ recompute' = [recompute EXCEPT ![e] = FALSE]
    /\ log' = log \o events \o <<Ev("return", e, 0)>>
    /\ discard_prior' = IF caller[e] = ADMIN THEN val ELSE NoDict
    /\ ResetLocals
    /\ UNCHANGED <<pre, exc, prev, mm_vars>>

\* an exception nothing catches: every frame is unwound
Raise(e, x) ==
    /\ pc' = [p \in Procs |-> "idle"]
    /\ caller' = [p \in Ests |-> "none"]
    /\ recompute' = [p \in Ests |-> FALSE]
    /\ exc' = x
    /\ log' = Append(log, Ev("raise", e, 0))
    /\ discard_prior' = NoDict
    /\ ResetLocals
    /\ UNCHANGED <<files, ret, pre, prev, mm_vars>>

Step(e, from, event) ==
    /\ pc[e] = from
    /\ pc' = [pc EXCEPT ![e] = successor(from)]
    /\ log' = Append(log, event)
    /\ UNCHANGED <<caller, recompute, ret, pre, exc, prev, mm_vars>>


(***************************************************************************)
(* Initial state: nothing runs; each cache file is absent, holds text that *)
(* is not JSON, or holds the result of an earlier run.                     *)
(***************************************************************************)
InitFiles ==
    {[f \in FileNames |->
        CASE f = "emp_prior_reten.json" -> r
          [] f = "emp_prior_admin.json" -> a
          [] f = "emp_prior_cov.json" -> c] :
     r \in {Absent, Garbage, json_dump(summary(LLIN, 1))},
     a \in {Absent, Garbage, json_dump(summary(ADMIN, 1))},
     c \in {Absent, Garbage, json_dump(summary(COV, 1))}}

InitRest ==
    /\ pc = [p \in Procs |-> "idle"]
    /\ caller = [e \in Ests |-> "none"]
    /\ recompute = [e \in Ests |-> FALSE]
    /\ ret = [e \in Ests |-> NoDict]
    /\ discard_prior = NoDict
    /\ data = NoData
    /\ data_dict = <<>>
    /\ vars = <<>>
    /\ retention_obs = <<>>
    /\ mc = NoMC
    /\ trace = 0
    /\ emp_prior_dict = NoDict
    /\ log = <<>>
    /\ exc = "none"
    /\ prev = NoPrev

Init ==
    /\ files \in InitFiles
    /\ pre = files
    /\ InitRest
    /\ mm_pc = "off"
    /\ mm_ab = NoDict
    /\ mm_xv = NoDict
    /\ mm_out = NoDict

(***************************************************************************)
(* Top-level invocations.                                                  *)
(***************************************************************************)
Begin(first) ==
    /\ Idle
    /\ pre' = files
    /\ log' = <<first>>
    /\ exc' = "none"
    /\ prev' = PrevOf
    /\ ret' = [e \in Ests |-> NoDict]
    /\ UNCHANGED <<files, locals, mm_vars>>

\* a caller of the module invokes e(recompute=rc)
Call(e, rc) ==
    /\ Begin(CallEv(e, rc))
    /\ pc' = [pc EXCEPT ![e] = "check"]
    /\ caller' = [caller EXCEPT ![e] = "top"]
    /\ recompute' = [recompute EXCEPT ![e] = rc]

\* python emp_priors.py args...
main_start(nargs) ==
    /\ Begin(Ev("call", MAIN, [rc |-> TRUE, file |-> Absent, nargs |-> nargs]))
    /\ pc' = [pc EXCEPT ![MAIN] = "parse"]
    /\ UNCHANGED <<caller, recompute>>

\* line 244: the file never imports optparse; the name is bound only if one
\* of the wildcard imports (lines 5-6) happens to export it
optparse_bound == BOOLEAN

main_NameError ==
    /\ pc[MAIN] = "parse"
    /\ FALSE \in optparse_bound
    /\ Raise(MAIN, "NameError")

\* lines 247-248
main_usage_error ==
    /\ pc[MAIN] = "parse"
    /\ TRUE \in optparse_bound
    /\ log[1].arg.nargs # 0
    /\ Raise(MAIN, "SystemExit")

main_parsed ==
    /\ pc[MAIN] = "parse"
    /\ TRUE \in optparse_bound
    /\ log[1].arg.nargs = 0
    /\ pc' = [pc EXCEPT ![MAIN] = "call_llin"]
    /\ UNCHANGED <<files, caller, recompute, ret, locals, pre, log, exc, prev, mm_vars>>

\* lines 250-252: e(recompute=True)
main_call(e) ==
    /\ pc[MAIN] = main_site(e)
    /\ pc' = [pc EXCEPT ![MAIN] = "wait", ![e] = "check"]
    /\ caller' = [caller EXCEPT ![e] = MAIN]
    /\ recompute' = [recompute EXCEPT ![e] = TRUE]
    /\ log' = Append(log, CallEv(e, TRUE))
    /\ UNCHANGED <<files, ret, locals, pre, exc, prev, mm_vars>>

main_exit ==
    /\ pc[MAIN] = "exit"
    /\ pc' = [pc EXCEPT ![MAIN] = "idle"]
    /\ log' = Append(log, Ev("return", MAIN, 0))
    /\ UNCHANGED <<files, caller, recompute, ret, locals, pre, exc, prev, mm_vars>>

(***************************************************************************)
(* The cache check and the load, the same in the three estimators.         *)
(***************************************************************************)
\* lines 30, 87, 173
Check(e) ==
    /\ pc[e] = "check"
    /\ pc' = [pc EXCEPT ![e] =
                IF cache_hit(e, recompute[e]) THEN "load" ELSE first_stage(e)]
    /\ UNCHANGED <<files, caller, recompute, ret, locals, pre, log, exc, prev, mm_vars>>

\* lines 31-32, 88-89, 174-175
Load(e) ==
    /\ pc[e] = "load"
    /\ json_parses(files[fname(e)])
    /\ Return(e, json_load(files[fname(e)]), <<Ev("load", e, 0)>>)
    /\ UNCHANGED files

LoadRaises(e) ==
    /\ pc[e] = "load"
    /\ ~json_parses(files[fname(e)])
    /\ Raise(e, "ValueError")

(***************************************************************************)
(* llin_discard_rate.                                                      *)
(***************************************************************************)
\* lines 35-53
llin_build ==
    \E recs \in RetentionInputs :
        /\ Step(LLIN, "build", Ev("build", LLIN, 0))
        /\ data' = [data EXCEPT !.retention = recs]
        /\ retention_obs' = llin_retention_obs(recs)
        /\ vars' = llin_vars(recs)
        /\ mc' = [NoMC EXCEPT !.model = MCMC_model(llin_vars(recs), llin_retention_obs(recs))]
        /\ UNCHANGED <<files, discard_prior, data_dict, trace, emp_prior_dict>>

(***************************************************************************)
(* admin_err_and_bias.                                                     *)
(***************************************************************************)
\* line 91
admin_call_discard ==
    /\ pc[ADMIN] = "call_discard"
    /\ pc' = [pc EXCEPT ![ADMIN] = "wait_discard", ![LLIN] = "check"]
    /\ caller' = [caller EXCEPT ![LLIN] = ADMIN]
    /\ recompute' = [recompute EXCEPT ![LLIN] = discard_recompute(recompute[ADMIN])]
    /\ log' = Append(log, CallEv(LLIN, discard_recompute(recompute[ADMIN])))
    /\ UNCHANGED <<files, ret, locals, pre, exc, prev, mm_vars>>

\* lines 92, 102-122
admin_join ==
    \E a \in SUBSET Keys, h \in SUBSET Keys :
        /\ Step(ADMIN, "join", Ev("join", ADMIN, mu_pi(discard_prior)))
        /\ data' = [data EXCEPT !.admin_llin = a, !.hh_llin_flow = h]
        /\ data_dict' = keep_complete(admin_store(a, h), 4)
        /\ discard_prior' = NoDict
        /\ UNCHANGED <<files, vars, retention_obs, mc, trace, emp_prior_dict>>

\* lines 96-98, 125-137
admin_build ==
    /\ Step(ADMIN, "build", Ev("build", ADMIN, 0))
    /\ vars' = admin_vars(data_dict)
    /\ mc' = [NoMC EXCEPT !.model = MCMC_model(admin_vars(data_dict), retention_obs)]
    /\ data' = NoData
    /\ UNCHANGED <<files, discard_prior, data_dict, retention_obs, trace,
                   emp_prior_dict>>

(***************************************************************************)
(* cov_and_zif_fac.                                                        *)
(***************************************************************************)
\* lines 184-207
cov_join ==
    \E p \in SUBSET Keys, s \in SUBSET Keys, c \in SUBSET Keys :
        /\ ~cov_KeyError(p, s, c)
        /\ Step(COV, "join", Ev("join", COV, 0))
        /\ data' = [data EXCEPT !.population = p, !.hh_llin_stock = s,
                                !.llin_coverage = c]
        /\ data_dict' = keep_complete(cov_store(p, s, c), 5)
        /\ UNCHANGED <<files, discard_prior, vars, retention_obs, mc, trace,
                       emp_prior_dict>>

\* lines 195, 201
cov_join_KeyError ==
    \E p \in SUBSET Keys, s \in SUBSET Keys, c \in SUBSET Keys :
        /\ pc[COV] = "join"
        /\ cov_KeyError(p, s, c)
        /\ Raise(COV, "KeyError")

\* lines 178-180, 210-222
cov_build ==
    /\ Step(COV, "build", Ev("build", COV, 0))
    /\ vars' = cov_vars(data_dict)
    /\ mc' = [NoMC EXCEPT !.model = MCMC_model(cov_vars(data_dict), retention_obs)]
    /\ data' = NoData
    /\ UNCHANGED <<files, discard_prior, data_dict, retention_obs, trace,
                   emp_prior_dict>>

(***************************************************************************)
(* Sampling, summary and the cache write, the same in the three.           *)
(***************************************************************************)
\* lines 54-57, 138-142, 223-227
Sample(e) ==
    \E seed \in Seeds :
        /\ Step(e, "sample", Ev("sample", e, 0))
        /\ mc' = [model |-> mc.model,
                  iter |-> sample_args(e).iter, burn |-> sample_args(e).burn,
                  thin |-> sample_args(e).thin, kept |-> sample_args(e).kept]
        /\ trace' = seed
        /\ data_dict' = <<>>
        /\ vars' = <<>>
        /\ retention_obs' = <<>>
        /\ UNCHANGED <<files, discard_prior, data, emp_prior_dict>>

\* the sampler raises (pymc rejects the model or a value)
SampleRaises(e) ==
    /\ pc[e] = "sample"
    /\ Raise(e, "SamplerError")

\* lines 59-64, 146-149, 231-234
Summarize(e) ==
    /\ Step(e, "summarize", Ev("summarize", e, 0))
    /\ emp_prior_dict' = summary(e, trace)
    /\ data' = NoData
    /\ mc' = NoMC
    /\ trace' = 0
    /\ UNCHANGED <<files, discard_prior, data_dict, vars, retention_obs>>

\* lines 65, 151, 236: open(settings.PATH + fname, 'w') creates or truncates
Open(e) ==
    /\ Step(e, "open", Ev("open", e, 0))
    /\ files' = [files EXCEPT ![fname(e)] = Empty]
    /\ UNCHANGED locals

Dump_returns_only(e) ==
    /\ pc[e] = "dump"
    /\ UNCHANGED files
    /\ Return(e, emp_prior_dict, <<>>)

\* lines 66-68, 152-154, 237-239: json.dump, return (the file is closed)
Dump(e) ==
    /\ pc[e] = "dump"
    /\ files' = [files EXCEPT ![fname(e)] = json_dump(emp_prior_dict)]
    /\ Return(e, emp_prior_dict, <<Ev("write", e, 0)>>)

Next ==
    \/ \E e \in Ests, rc \in BOOLEAN : Call(e, rc)
    \/ \E n \in 0..MaxArgs : main_start(n)
    \/ main_NameError
    \/ main_usage_error
    \/ main_parsed
    \/ \E e \in Ests : main_call(e)
    \/ main_exit
    \/ \E e \in Ests : Check(e)
    \/ \E e \in Ests : Load(e)
    \/ \E e \in Ests : LoadRaises(e)
    \/ llin_build
    \/ admin_call_discard
    \/ admin_join
    \/ admin_build
    \/ cov_join
    \/ cov_join_KeyError
    \/ cov_build
    \/ \E e \in Ests : Sample(e)
    \/ \E e \in Ests : SampleRaises(e)
    \/ \E e \in Ests : Summarize(e)
    \/ \E e \in Ests : Open(e)
    \/ \E e \in Ests : Dump(e)

Spec == Init /\ [][Next]_vars_all


(***************************************************************************)
(* The moment-matching conversion on its own: a Beta(alpha, beta) is       *)
(* chosen, its mean and variance are taken, line 64 is applied to them.    *)
(***************************************************************************)
PosRats == {Rat(n, d) : n \in 1..MaxNum, d \in 1..MaxDen}

\* mean and variance of Beta(alpha, beta)
beta_moments(ab) ==
    LET t == RAdd(ab.alpha, ab.beta)
    IN  [x |-> RDiv(ab.alpha, t),
         v |-> RDiv(RMul(ab.alpha, ab.beta), RMul(RMul(t, t), RAdd(t, One)))]

InitMM ==
    /\ files = [f \in FileNames |-> Absent]
    /\ pre = files
    /\ InitRest
    /\ mm_pc = "start"
    /\ mm_ab \in {[alpha |-> a, beta |-> b] : a \in PosRats, b \in PosRats}
    /\ mm_xv = NoDict
    /\ mm_out = NoDict

mm_moments ==
    /\ mm_pc = "start"
    /\ mm_xv' = beta_moments(mm_ab)
    /\ mm_pc' = "moments"
    /\ UNCHANGED <<files, pc, caller, recompute, ret, locals, pre, log, exc, prev,
                   mm_ab, mm_out>>

mm_convert ==
    /\ mm_pc = "moments"
    /\ mm_out' = moment_match(mm_xv.x, mm_xv.v)
    /\ mm_pc' = "done"
    /\ UNCHANGED <<files, pc, caller, recompute, ret, locals, pre, log, exc, prev,
                   mm_ab, mm_xv>>

NextMM == mm_moments \/ mm_convert

SpecMM == InitMM /\ [][NextMM]_vars_all

(***************************************************************************)
(* Vocabulary of the properties.                                           *)
(***************************************************************************)
\* the cache file section 6 of the specification gives each estimator
OwnFile(e) ==
    CASE e = LLIN -> "emp_prior_reten.json"
      [] e = ADMIN -> "emp_prior_admin.json"
      [] e = COV -> "emp_prior_cov.json"

Last == Len(log)
Is(k, ev, who) == log[k].ev = ev /\ log[k].who = who
IsEstCall(i) == log[i].ev = "call" /\ log[i].who \in Ests
MinOf(S) == CHOOSE x \in S : \A y \in S : x <= y
MaxOf(S) == CHOOSE x \in S : \A y \in S : x >= y

\* where the call logged at i ended: its return, or the exception that unwound
\* it; Last + 1 while it runs
EndOf(i) ==
    LET js == {j \in (i + 1)..Last :
                  log[j].ev = "raise" \/ Is(j, "return", log[i].who)}
    IN  IF js = {} THEN Last + 1 ELSE MinOf(js)

\* the call of llin_discard_rate that admin_err_and_bias makes
Nested(k) == k > 1 /\ Is(k, "call", LLIN) /\ Is(k - 1, "call", ADMIN)

SamplesOf(e, i, j) == {k \in (i + 1)..(j - 1) : Is(k, "sample", e)}

(***************************************************************************)
(* C1: a call with recompute=False whose cache file exists returns the     *)
(* parsed contents of the file (raises if the file does not parse), runs   *)
(* no sampler, its own or a nested one, and writes no cache file.          *)
(***************************************************************************)
C1_CacheHit ==
    \A i \in DOMAIN log :
        (IsEstCall(i) /\ ~log[i].arg.rc /\ log[i].arg.file.st # "absent") =>
            LET e == log[i].who
                j == EndOf(i)
            IN  /\ \A k \in (i + 1)..(j - 1) : Is(k, "load", e)
                /\ j >= Last => files[OwnFile(e)] = log[i].arg.file
                /\ (j >= Last /\ i = 1) => files = pre
                /\ j = Last + 1 => pc[e] \in {"check", "load"}
                /\ j = Last =>
                       IF log[i].arg.file.st = "json"
                       THEN Is(j, "return", e) /\ ret[e] = log[i].arg.file.val
                       ELSE log[j].ev = "raise" /\ exc = "ValueError"

C1_Witness ==
    /\ Idle /\ Last = 3
    /\ Is(1, "call", COV) /\ ~log[1].arg.rc
    /\ pre["emp_prior_cov.json"].st = "json"
    /\ Is(3, "return", COV)
    /\ ret[COV] = pre["emp_prior_cov.json"].val

(***************************************************************************)
(* C2: a call with recompute=False whose cache file is absent never loads, *)
(* runs its sampler exactly once before it returns, and on return the      *)
(* file holds the value returned; the non-forced call of the same          *)
(* estimator that follows immediately returns that value, without          *)
(* sampling, writing or raising.                                           *)
(***************************************************************************)
C2_CacheMiss ==
    /\ \A i \in DOMAIN log :
         (IsEstCall(i) /\ ~log[i].arg.rc /\ log[i].arg.file.st = "absent") =>
             LET e == log[i].who
                 j == EndOf(i)
             IN  /\ \A k \in (i + 1)..(j - 1) : ~Is(k, "load", e)
                 /\ Cardinality(SamplesOf(e, i, j)) <= 1
                 /\ (j = Last /\ Is(j, "return", e)) =>
                        /\ Cardinality(SamplesOf(e, i, j)) = 1
                        /\ files[OwnFile(e)].st = "json"
                        /\ files[OwnFile(e)].val = ret[e]
    /\ (prev.fn # "none" /\ Last > 0 /\ log[1].who = prev.fn /\ ~log[1].arg.rc) =>
         /\ \A k \in DOMAIN log : log[k].ev \in {"call", "load", "return"}
         /\ Idle => Is(Last, "return", prev.fn) /\ ret[prev.fn] = prev.val

C2_Witness ==
    /\ Idle /\ prev.fn = ADMIN /\ Last > 0
    /\ Is(1, "call", ADMIN) /\ ~log[1].arg.rc
    /\ Is(Last, "return", ADMIN)
    /\ ret[ADMIN] = prev.val
    /\ files["emp_prior_admin.json"].val = prev.val

(***************************************************************************)
(* C4: a cache file is opened for writing only after the sampling and the  *)
(* summary of the same call; when an exception ends an invocation, the     *)
(* cache file of every estimator it unwinds is as it was when that         *)
(* estimator was called.                                                   *)
(***************************************************************************)
C4_NoPartialResult ==
    /\ \A k \in DOMAIN log :
         (log[k].ev = "open") =>
             LET e == log[k].who
                 i == MaxOf({c \in 1..k : Is(c, "call", e)})
             IN  \E s \in (i + 1)..(k - 1), m \in (i + 1)..(k - 1) :
                     s < m /\ Is(s, "sample", e) /\ Is(m, "summarize", e)
    /\ (Last > 0 /\ log[Last].ev = "raise") =>
         \A i \in DOMAIN log :
             (IsEstCall(i) /\ EndOf(i) = Last) =>
                 files[OwnFile(log[i].who)] = log[i].arg.file

C4_Witness ==
    /\ Last > 0 /\ log[Last].ev = "raise" /\ exc = "SamplerError"
    /\ Is(1, "call", ADMIN) /\ log[1].arg.rc
    /\ pre["emp_prior_admin.json"].st = "json"
    /\ pre["emp_prior_reten.json"].st = "absent"
    /\ files["emp_prior_reten.json"].st = "json"
    /\ files["emp_prior_admin.json"] = pre["emp_prior_admin.json"]


(***************************************************************************)
(* C3: in both joining estimators the keys that get a likelihood term are  *)
(* the keys present in every constituent table, and a key missing from a   *)
(* table is only ever dropped: no run ends in a KeyError.                  *)
(***************************************************************************)
ObsKeys(model) == {nd.id : nd \in {m \in model : m.node = "obs"}}

C3_JoinComputed ==
    /\ pc[ADMIN] = "build" =>
         DOMAIN data_dict = data.admin_llin \cap data.hh_llin_flow
    /\ pc[COV] = "build" =>
         DOMAIN data_dict =
             data.population \cap data.hh_llin_stock \cap data.llin_coverage
    /\ \A e \in {ADMIN, COV} : pc[e] = "sample" => ObsKeys(mc.model) = DOMAIN data_dict

\* C3: the join is exact in both estimators and no run ends in a KeyError
C3_JoinExact == C3_JoinComputed /\ exc # "KeyError"

(***************************************************************************)
(* C5: the entry point invoked with no arguments samples the discard-rate, *)
(* admin-bias and coverage estimators in that order, leaves each of the    *)
(* three cache files holding the result its estimator returned, and loads  *)
(* no cache file that this invocation has not written before.              *)
(***************************************************************************)
SampleEvents == SelectSeq(log, LAMBDA ev : ev.ev = "sample")

C5_FreshLoads ==
    \A k \in DOMAIN log :
        log[k].ev = "load" =>
            \E w \in 1..(k - 1) : Is(w, "write", log[k].who)

C5_Completed ==
    /\ Len(SampleEvents) = 3
    /\ SampleEvents[1].who = LLIN
    /\ SampleEvents[2].who = ADMIN
    /\ SampleEvents[3].who = COV
    /\ \A e \in Ests :
         /\ \E w \in DOMAIN log : Is(w, "write", e)
         /\ files[OwnFile(e)].st = "json"
         /\ files[OwnFile(e)].val = ret[e]

\* C5: every invocation of the entry point with no arguments samples the
\* three estimators in order, rewrites the three files and loads nothing stale
C5_MainRunsAll ==
    (Last > 0 /\ log[1].who = MAIN /\ log[1].arg.nargs = 0) =>
        /\ C5_FreshLoads
        /\ Idle => C5_Completed

\* the same, of the invocations that no exception ends
C5_MainRunsAllUnlessRaised ==
    (Last > 0 /\ log[1].who = MAIN /\ log[1].arg.nargs = 0) =>
        /\ C5_FreshLoads
        /\ (Idle /\ exc = "none") => C5_Completed

C5_CompletedRun ==
    /\ Last > 0 /\ log[1].who = MAIN /\ Idle /\ exc = "none"
    /\ pre["emp_prior_reten.json"].st = "json"

(***************************************************************************)
(* C6: for every alpha > 0 and beta > 0 the conversion of line 64, applied *)
(* to the mean and the variance of Beta(alpha, beta), gives back alpha and *)
(* beta.                                                                   *)
(***************************************************************************)
C6_RoundTrip ==
    mm_pc = "done" =>
        /\ RPos(mm_xv.v)
        /\ mm_out.alpha = mm_ab.alpha
        /\ mm_out.beta = mm_ab.beta

C6_Witness ==
    /\ mm_pc = "done"
    /\ mm_ab = [alpha |-> <<3, 2>>, beta |-> <<1, 3>>]
    /\ mm_out = mm_ab

(***************************************************************************)
(* C7: whenever admin_err_and_bias computes, its first act is a non-forced *)
(* call of llin_discard_rate, which has returned before admin joins,       *)
(* builds or samples.  If emp_prior_reten.json exists at that call it is   *)
(* loaded: no discard-rate sampling, no rewrite, whatever recompute admin  *)
(* was given.  If it is absent, the discard-rate sampling and the write of *)
(* the file precede admin's join and sampling.  Two sampling runs are      *)
(* never in progress together.                                             *)
(***************************************************************************)
AdminOwn == {"join", "build", "sample", "summarize", "open", "write"}

C7_DiscardCall ==
    /\ \A m \in DOMAIN log :
         (log[m].who = ADMIN /\ log[m].ev \in AdminOwn) =>
             LET i == MaxOf({c \in 1..m : Is(c, "call", ADMIN)})
                 j == EndOf(i + 1)
             IN  /\ Nested(i + 1)
                 /\ j < m
                 /\ Is(j, "return", LLIN)
                 /\ log[i + 1].arg.file.st = "absent" =>
                        \E s \in (i + 2)..(j - 1), w \in (i + 2)..(j - 1) :
                            s < w /\ Is(s, "sample", LLIN) /\ Is(w, "write", LLIN)
    /\ \A k \in DOMAIN log :
         Nested(k) =>
             /\ ~log[k].arg.rc
             /\ log[k].arg.file.st # "absent" =>
                    /\ \A m \in (k + 1)..(EndOf(k) - 1) : Is(m, "load", LLIN)
                    /\ \A m \in (k + 1)..Last :
                           log[m].who = LLIN => log[m].ev \in {"load", "return", "raise"}
                    /\ files["emp_prior_reten.json"] = log[k].arg.file
    /\ Cardinality({e \in Ests : pc[e] \in {"sample", "summarize"}}) <= 1
    /\ pc[LLIN] # "idle" => pc[ADMIN] \in {"idle", "wait_discard"}

C7_Witness ==
    /\ Idle /\ exc = "none" /\ Last > 3
    /\ Is(1, "call", ADMIN) /\ log[1].arg.rc
    /\ pre["emp_prior_reten.json"].st = "json"
    /\ Is(3, "load", LLIN)
    /\ Is(Last, "return", ADMIN)
    /\ files["emp_prior_reten.json"] = pre["emp_prior_reten.json"]

(***************************************************************************)
(* C8: the model llin_discard_rate hands to the sampler holds pi, sigma    *)
(* and one observed node per retention record, node i with record i's      *)
(* Retention_Rate and Follow_up_Time, for any number of records; with no   *)
(* record the build raises nothing, the sampler runs and, unless the       *)
(* sampler itself raises, the result is written.                           *)
(***************************************************************************)
C8_ModelOf(model, recs) ==
    /\ Cardinality(model) = Len(recs) + 2
    /\ \A nd \in model : nd.node \in {"pi", "sigma", "obs"}
    /\ \E nd \in model : nd.node = "pi"
    /\ \E nd \in model : nd.node = "sigma"
    /\ \A i \in 1..Len(recs) :
         \E nd \in model :
             /\ nd.node = "obs" /\ nd.id = i
             /\ nd.value = recs[i].Retention_Rate
             /\ nd.T_i = recs[i].Follow_up_Time

C8_RetentionModel ==
    /\ pc[LLIN] \in {"sample", "summarize"} => C8_ModelOf(mc.model, data.retention)
    /\ pc[LLIN] = "summarize" => Is(Last, "sample", LLIN) /\ trace # 0
    /\ \A k \in DOMAIN log :
         Is(k, "build", LLIN) =>
             /\ Last = k => pc[LLIN] = "sample"
             /\ Last > k => \/ Is(k + 1, "sample", LLIN)
                            \/ log[k + 1].ev = "raise" /\ (Last = k + 1 => exc = "SamplerError")
             /\ (Last > k + 1 /\ Is(k + 1, "sample", LLIN)) => Is(k + 2, "summarize", LLIN)
             /\ Last > k + 2 => Is(k + 3, "open", LLIN)
             /\ Last > k + 3 => Is(k + 4, "write", LLIN)

C8_Witness ==
    /\ pc[LLIN] = "summarize"
    /\ Len(data.retention) = 0
    /\ Cardinality(mc.model) = 2
    /\ Is(Last, "sample", LLIN)

C8_WitnessTwoRecords ==
    /\ pc[LLIN] = "sample"
    /\ Len(data.retention) = 2
    /\ data.retention[1] # data.retention[2]

(***************************************************************************)
(* C9: every sampling run, of any estimator, with any recompute flag and   *)
(* any data, is mc.sample(220000, 20000, 20) and retains 10000 draws.      *)
(***************************************************************************)
C9_Protocol ==
    (Last > 0 /\ log[Last].ev = "sample") =>
        /\ mc.iter = 220000
        /\ mc.burn = 20000
        /\ mc.thin = 20
        /\ mc.kept = 10000

C9_Witness ==
    /\ Last > 0 /\ Is(Last, "sample", COV)
    /\ pc[COV] = "summarize"
    /\ mc.kept = 10000

(***************************************************************************)
(* C10: a cache file changes during an invocation only if its estimator's  *)
(* sampler ran in that invocation; llin_discard_rate touches only          *)
(* emp_prior_reten.json; cov_and_zif_fac touches only emp_prior_cov.json   *)
(* and calls or loads nothing else; admin_err_and_bias leaves              *)
(* emp_prior_cov.json alone and changes emp_prior_reten.json only if it    *)
(* was absent when admin was called; no step deletes a cache file.         *)
(***************************************************************************)
C10_FrameInv ==
    /\ \A e \in Ests :
         files[OwnFile(e)] # pre[OwnFile(e)] => \E k \in DOMAIN log : Is(k, "sample", e)
    /\ (Last > 0 /\ log[1].who = LLIN) =>
         /\ files["emp_prior_admin.json"] = pre["emp_prior_admin.json"]
         /\ files["emp_prior_cov.json"] = pre["emp_prior_cov.json"]
         /\ \A k \in DOMAIN log : log[k].who = LLIN
    /\ (Last > 0 /\ log[1].who = COV) =>
         /\ files["emp_prior_admin.json"] = pre["emp_prior_admin.json"]
         /\ files["emp_prior_reten.json"] = pre["emp_prior_reten.json"]
         /\ \A k \in DOMAIN log : log[k].who = COV
    /\ (Last > 0 /\ log[1].who = ADMIN) =>
         /\ files["emp_prior_cov.json"] = pre["emp_prior_cov.json"]
         /\ \A k \in DOMAIN log : log[k].who # COV
         /\ files["emp_prior_reten.json"] # pre["emp_prior_reten.json"] =>
                pre["emp_prior_reten.json"].st = "absent"

C10_NoDelete ==
    \A f \in FileNames : files[f].st # "absent" => files'[f].st # "absent"

C10_Frame == []C10_FrameInv /\ [][C10_NoDelete]_vars_all

C10_Witness ==
    /\ Idle /\ exc = "none" /\ Last > 0
    /\ Is(1, "call", ADMIN) /\ log[1].arg.rc
    /\ pre["emp_prior_reten.json"].st = "absent"
    /\ pre["emp_prior_admin.json"].st = "json"
    /\ files["emp_prior_reten.json"].st = "json"
    /\ files["emp_prior_admin.json"] # pre["emp_prior_admin.json"]

====
